---- MODULE Spec2Model ----
(***************************************************************************)
(* Model of the RAG server's ingestion pipeline (upload endpoint,          *)
(* background ingestion job, delete endpoint) and of the multi-index       *)
(* vector store (routing, add_document, search, delete_document).          *)
(*                                                                         *)
(* The vector-store backend (Qdrant) and the metadata store (MongoDB) are  *)
(* the environment: every backend call either completes or raises.  Which  *)
(* collections' calls raise during one operation is an input of that       *)
(* operation (faults); whether the metadata store answers is the variable  *)
(* mongo_up, which the environment flips at any time.                      *)
(***************************************************************************)
EXTENDS Integers, Sequences, FiniteSets, TLC

(***************************************************************************)
(* Bounds of the model.                                                    *)
(***************************************************************************)
\* number of documents ever uploaded (file ids are 1..MaxDocs)
MaxDocs == 2
\* a fault set holds at most MaxFaults collections, or all but at most MaxFaults
MaxFaults == 1
\* requested top_k ranges over 1..MaxTopK
MaxTopK == 2

(***************************************************************************)
(* Settings (app/core/config.py).                                          *)
(***************************************************************************)
settings_chunk_size == 1000
settings_chunk_overlap == 200
settings_top_k == 5

supported_formats == {"pdf", "docx", "xlsx", "csv", "txt", "png", "jpg", "jpeg"}

\* window of the backward scan for a sentence end in chunk_text
SentenceLookback == 100

(***************************************************************************)
(* Small helpers.                                                          *)
(***************************************************************************)
Min(a, b) == IF a <= b THEN a ELSE b
Max(a, b) == IF a >= b THEN a ELSE b

Range(s) == {s[i] : i \in DOMAIN s}

(***************************************************************************)
(* Text: a sequence of one-character strings.  Python indexes from 0, so   *)
(* text[i] of the source is text[i + 1] here.                              *)
(***************************************************************************)
Whitespace == {" ", "\n", "\t"}
SentenceEnd == {".", "!", "?"}

\* text[i] of Python for an index in range: a negative index counts from the end
PyChar(text, i) == IF i >= 0 THEN text[i + 1] ELSE text[Len(text) + i + 1]

\* a slice bound as Python clips it: negative counts from the end
PyBound(text, i) ==
  IF i < 0 THEN Max(Len(text) + i, 0) ELSE Min(i, Len(text))

\* text[start:end] of Python (0-based, end exclusive)
Slice(text, start, end) ==
  SubSeq(text, PyBound(text, start) + 1, PyBound(text, end))

\* str.strip()
Strip(text) ==
  LET idx == {i \in 1..Len(text) : text[i] \notin Whitespace}
  IN  IF idx = {} THEN <<>>
      ELSE LET lo == CHOOSE i \in idx : \A j \in idx : i <= j
               hi == CHOOSE i \in idx : \A j \in idx : i >= j
           IN  SubSeq(text, lo, hi)

\* the indexes the for loop of chunk_text can read before text[i] raises
\* IndexError: range(end, max(start + chunk_size - 100, start), -1), cut at
\* -len(text)
Scanned(text, start, end, chunk_size) ==
  LET lo == Max(start + chunk_size - SentenceLookback, start)
  IN  {i \in (lo + 1)..end : i >= -Len(text)}

\* the for loop of chunk_text: the first i, scanning down from end to
\* max(start + chunk_size - 100, start) exclusive, with text[i] a sentence
\* end; the window's cut is i + 1, or end when there is none
SentenceCut(text, start, end, chunk_size) ==
  LET hits == {i \in Scanned(text, start, end, chunk_size) :
                 PyChar(text, i) \in SentenceEnd}
  IN  IF hits = {} THEN end
      ELSE (CHOOSE i \in hits : \A j \in hits : i >= j) + 1

\* the for loop reads text[i] for an i below -len(text): IndexError
ScanRaises(text, start, end, chunk_size) ==
  /\ Max(start + chunk_size - SentenceLookback, start) + 1 < -Len(text)
  /\ \A i \in Scanned(text, start, end, chunk_size) :
       PyChar(text, i) \notin SentenceEnd

\* a faulty iteration: the next window starts one character late
chunk_body_skipping(text, chunk_size, overlap, start, chunks) ==
  LET end0 == start + chunk_size
      scan == end0 < Len(text)
      end == IF scan THEN SentenceCut(text, start, end0, chunk_size) ELSE end0
      chunk == Strip(Slice(text, start, end))
  IN  [raised |-> scan /\ ScanRaises(text, start, end0, chunk_size),
       end    |-> end,
       kept   |-> chunk # <<>>,
       chunks |-> IF chunk # <<>> THEN Append(chunks, chunk) ELSE chunks,
       start  |-> end - overlap + 1]

\* one iteration of the while loop of chunk_text, entered with
\* start < len(text): the window's end, the chunks and the next start
ChunkBody(text, chunk_size, overlap, start, chunks) ==
  LET end0 == start + chunk_size
      scan == end0 < Len(text)
      end == IF scan THEN SentenceCut(text, start, end0, chunk_size) ELSE end0
      chunk == Strip(Slice(text, start, end))
  IN  [raised |-> scan /\ ScanRaises(text, start, end0, chunk_size),
       end    |-> end,
       kept   |-> chunk # <<>>,
       chunks |-> IF chunk # <<>> THEN Append(chunks, chunk) ELSE chunks,
       start  |-> end - overlap]

RECURSIVE ChunkLoop(_, _, _, _, _)
\* the while loop of chunk_text, entered with start < len(text)
ChunkLoop(text, chunk_size, overlap, start, chunks) ==
  LET b == ChunkBody(text, chunk_size, overlap, start, chunks)
  IN  IF b.start >= Len(text) THEN b.chunks
      ELSE ChunkLoop(text, chunk_size, overlap, b.start, b.chunks)

\* DocumentProcessor.chunk_text
chunk_text(text, chunk_size, overlap) ==
  IF Len(text) <= chunk_size THEN <<text>>
  ELSE ChunkLoop(text, chunk_size, overlap, 0, <<>>)

(***************************************************************************)
(* Texts a decoder can return for an uploaded file.                        *)
(***************************************************************************)
TextIds == {"blank", "short", "long", "plain2500"}

LongTextLen == 1300

TextOf(t) ==
  CASE t = "blank" -> <<" ", "\n">>
    [] t = "short" -> <<"a", "b", ".">>
    [] t = "long"  -> [i \in 1..LongTextLen |-> IF i = 950 THEN "." ELSE "a"]
    [] t = "plain2500" -> [i \in 1..2500 |-> "a"]

\* text.strip() is empty (add_document, line 93), for each text
IsBlank == [t \in TextIds |-> Strip(TextOf(t)) = <<>>]

\* the number of chunks add_document gets for each text, under the settings
NumChunks ==
  [t \in TextIds |->
     Len(chunk_text(TextOf(t), settings_chunk_size, settings_chunk_overlap))]

(***************************************************************************)
(* Collections and routing (MultiIndexVectorStore.__init__,                *)
(* _get_collection_name).                                                  *)
(***************************************************************************)
CollectionKeys == <<"pdf", "docx", "xlsx", "csv", "txt", "image", "default">>

collections ==
  [pdf     |-> "rag_pdf_documents",
   docx    |-> "rag_docx_documents",
   xlsx    |-> "rag_xlsx_documents",
   csv     |-> "rag_csv_documents",
   txt     |-> "rag_txt_documents",
   image   |-> "rag_image_documents",
   default |-> "rag_documents"]

\* list(self.collections.values()), in the dict's order
CollectionNames == [i \in DOMAIN CollectionKeys |-> collections[CollectionKeys[i]]]

KnownCollections == Range(CollectionNames)

\* a faulty routing: jpeg is not taken for an image type
route_without_jpeg(file_type) ==
  IF file_type \in {"png", "jpg"} THEN collections["image"]
  ELSE IF file_type \in DOMAIN collections THEN collections[file_type]
  ELSE collections["default"]

get_collection_name(file_type) ==
  IF file_type \in {"png", "jpg", "jpeg"} THEN collections["image"]
  ELSE IF file_type \in DOMAIN collections THEN collections[file_type]
  ELSE collections["default"]

(***************************************************************************)
(* The vector configuration of a collection in the backend.                *)
(***************************************************************************)
\* the dimension of the embedding model's vectors (all-MiniLM-L6-v2)
embedding_dim == 384

\* VectorParams(size=self.embedding_dim, distance=Distance.COSINE)
Wanted == [size |-> embedding_dim, distance |-> "Cosine"]

\* the backend has no collection of that name
Absent == [size |-> 0, distance |-> "none"]

\* every known collection exists as _ensure_collections creates it
AllCreated == [c \in KnownCollections |-> Wanted]

(***************************************************************************)
(* Points and the backend's collections.  A point is the payload that      *)
(* add_document builds; its id is f"{file_id}_chunk_{i}".                  *)
(***************************************************************************)
Docs == 1..MaxDocs

\* a faulty point id: the chunk index alone
chunk_index_id(p) == <<p.chunk_index>>

PointId(p) == <<p.file_id, p.chunk_index>>

\* the similarity the backend computes between the query and a stored chunk
Score(p) == (p.file_id + 2 * p.chunk_index) % 3

\* the points add_document prepares for a document of n chunks (lines 107-138)
BuildPoints(file_id, file_type, collection_name, n) ==
  {[file_id      |-> file_id,
    file_type    |-> file_type,
    collection   |-> collection_name,
    chunk_index  |-> i,
    total_chunks |-> n] : i \in 0..(n - 1)}

\* client.upsert: insert or overwrite by point id
Upsert(st, collection_name, points) ==
  LET ids == {PointId(p) : p \in points}
  IN  [st EXCEPT ![collection_name] =
         {p \in @ : PointId(p) \notin ids} \cup points]

EmptyStore == [c \in KnownCollections |-> {}]

(***************************************************************************)
(* filter_metadata: a dict, here the set of its <<key, value>> items.      *)
(***************************************************************************)
HasKey(filter_metadata, key) == \E kv \in filter_metadata : kv[1] = key

GetKey(filter_metadata, key) ==
  (CHOOSE kv \in filter_metadata : kv[1] = key)[2]

\* Filter(must=[FieldCondition(key, MatchValue(value)) ...]) on a payload
Matches(p, filter_metadata) == \A kv \in filter_metadata : p[kv[1]] = kv[2]

(***************************************************************************)
(* Optional arguments: None is <<>>, a given value x is <<x>>.             *)
(***************************************************************************)
None == <<>>
Some(x) == <<x>>

(***************************************************************************)
(* Search.                                                                 *)
(***************************************************************************)
\* p comes before q in the backend's ranking: higher score first (cosine
\* similarity), ties by point id
Before(p, q) ==
  \/ Score(p) > Score(q)
  \/ /\ Score(p) = Score(q)
     /\ \/ p.file_id < q.file_id
        \/ p.file_id = q.file_id /\ p.chunk_index <= q.chunk_index

RECURSIVE Ranked(_)
Ranked(S) ==
  IF S = {} THEN <<>>
  ELSE LET best == CHOOSE p \in S : \A q \in S : Before(p, q)
       IN  <<best>> \o Ranked(S \ {best})

\* client.search(collection_name, query_vector, limit, query_filter)
client_search(st, collection_name, limit, filter_metadata) ==
  LET ranked == Ranked({p \in st[collection_name] : Matches(p, filter_metadata)})
  IN  SubSeq(ranked, 1, Min(limit, Len(ranked)))

\* one formatted result of search_single_collection (lines 193-201)
FormatHit(p, collection_name) ==
  [id         |-> PointId(p),
   file_id    |-> p.file_id,
   metadata   |-> p,
   distance   |-> Score(p),
   collection |-> collection_name]

\* search_single_collection: raises when the backend call raises, which it
\* does for a collection in faults and for a collection that does not exist
search_single_collection(st, collection_name, top_k, filter_metadata, faults) ==
  IF collection_name \in faults \/ collection_name \notin KnownCollections
  THEN [raised |-> TRUE, hits |-> <<>>,
        calls  |-> <<[collection |-> collection_name, limit |-> top_k, ok |-> FALSE]>>]
  ELSE LET found == client_search(st, collection_name, top_k, filter_metadata)
       IN  [raised |-> FALSE,
            hits   |-> [i \in DOMAIN found |-> FormatHit(found[i], collection_name)],
            calls  |-> <<[collection |-> collection_name, limit |-> top_k, ok |-> TRUE]>>]

\* list.sort(key=distance): a stable sort, ascending
InsertByDistance(sorted, x) ==
  LET after == {i \in DOMAIN sorted : sorted[i].distance <= x.distance}
      n == IF after = {} THEN 0 ELSE CHOOSE i \in after : \A j \in after : i >= j
  IN  SubSeq(sorted, 1, n) \o <<x>> \o SubSeq(sorted, n + 1, Len(sorted))

RECURSIVE SortByDistance(_)
SortByDistance(results) ==
  IF results = <<>> THEN <<>>
  ELSE InsertByDistance(SortByDistance(SubSeq(results, 1, Len(results) - 1)),
                        results[Len(results)])

RECURSIVE FanOut(_, _, _, _, _, _, _)
\* the for loop of search_multiple_collections over cols, with all_results
\* and the calls made so far: a collection whose search raises is skipped
FanOut(st, cols, top_k, filter_metadata, faults, all_results, calls) ==
  IF cols = <<>> THEN [hits |-> all_results, calls |-> calls]
  ELSE LET one == search_single_collection(st, Head(cols), top_k, filter_metadata, faults)
       IN  FanOut(st, Tail(cols), top_k, filter_metadata, faults,
                  IF one.raised THEN all_results ELSE all_results \o one.hits,
                  calls \o one.calls)

\* search_multiple_collections(query, collections=[], top_k_per_collection=1,
\* filter_metadata={}); the two optional arguments are None or Some(value)
search_multiple_collections(st, collections_arg, top_k_per_collection, filter_metadata, faults) ==
  LET cols == IF collections_arg = None THEN CollectionNames ELSE collections_arg[1]
  IN  IF top_k_per_collection = None /\ Len(cols) = 0
      THEN \* settings.top_k // len(collections) divides by zero
           [raised |-> TRUE, hits |-> <<>>, calls |-> <<>>]
      ELSE LET k == IF top_k_per_collection = None
                    THEN Max(1, settings_top_k \div Len(cols))
                    ELSE top_k_per_collection[1]
               all_results == FanOut(st, cols, k, filter_metadata, faults, <<>>, <<>>)
               sorted == SortByDistance(all_results.hits)
           IN  [raised |-> FALSE,
                hits   |-> SubSeq(sorted, 1, Min(settings_top_k, Len(sorted))),
                calls  |-> all_results.calls]

\* a faulty search: offline mode is not looked at
search_ignoring_offline(st, top_k, filter_metadata, search_mode, offline, faults) ==
  IF search_mode = "all"
  THEN search_multiple_collections(st, Some(<<>>), Some(top_k), filter_metadata, faults)
  ELSE IF search_mode = "file_type" /\ filter_metadata # {} /\ HasKey(filter_metadata, "file_type")
  THEN search_single_collection(
         st, get_collection_name(GetKey(filter_metadata, "file_type")),
         top_k, filter_metadata, faults)
  ELSE IF search_mode = "collection" /\ filter_metadata # {} /\ HasKey(filter_metadata, "collection")
  THEN search_single_collection(
         st, GetKey(filter_metadata, "collection"), top_k, filter_metadata, faults)
  ELSE search_multiple_collections(st, Some(<<>>), Some(top_k), filter_metadata, faults)

\* a faulty search: mode "file_type" fans out over every collection
search_file_type_everywhere(st, top_k, filter_metadata, search_mode, offline, faults) ==
  IF offline THEN [raised |-> FALSE, hits |-> <<>>, calls |-> <<>>]
  ELSE IF search_mode = "all"
  THEN search_multiple_collections(st, Some(<<>>), Some(top_k), filter_metadata, faults)
  ELSE IF search_mode = "file_type" /\ filter_metadata # {} /\ HasKey(filter_metadata, "file_type")
  THEN search_multiple_collections(st, None, Some(top_k), filter_metadata, faults)
  ELSE IF search_mode = "collection" /\ filter_metadata # {} /\ HasKey(filter_metadata, "collection")
  THEN search_single_collection(
         st, GetKey(filter_metadata, "collection"), top_k, filter_metadata, faults)
  ELSE search_multiple_collections(st, Some(<<>>), Some(top_k), filter_metadata, faults)

\* a faulty search: an unlisted mode searches the fallback collection only
search_other_mode_fallback(st, top_k, filter_metadata, search_mode, offline, faults) ==
  IF offline THEN [raised |-> FALSE, hits |-> <<>>, calls |-> <<>>]
  ELSE IF search_mode = "all"
  THEN search_multiple_collections(st, Some(<<>>), Some(top_k), filter_metadata, faults)
  ELSE IF search_mode = "file_type" /\ filter_metadata # {} /\ HasKey(filter_metadata, "file_type")
  THEN search_single_collection(
         st, get_collection_name(GetKey(filter_metadata, "file_type")),
         top_k, filter_metadata, faults)
  ELSE IF search_mode = "collection" /\ filter_metadata # {} /\ HasKey(filter_metadata, "collection")
  THEN search_single_collection(
         st, GetKey(filter_metadata, "collection"), top_k, filter_metadata, faults)
  ELSE search_single_collection(st, collections["default"], top_k, filter_metadata, faults)

\* MultiIndexVectorStore.search
search(st, top_k, filter_metadata, search_mode, offline, faults) ==
  IF offline THEN [raised |-> FALSE, hits |-> <<>>, calls |-> <<>>]
  ELSE IF search_mode = "all"
  THEN search_multiple_collections(st, Some(<<>>), Some(top_k), filter_metadata, faults)
  ELSE IF search_mode = "file_type" /\ filter_metadata # {} /\ HasKey(filter_metadata, "file_type")
  THEN search_single_collection(
         st, get_collection_name(GetKey(filter_metadata, "file_type")),
         top_k, filter_metadata, faults)
  ELSE IF search_mode = "collection" /\ filter_metadata # {} /\ HasKey(filter_metadata, "collection")
  THEN search_single_collection(
         st, GetKey(filter_metadata, "collection"), top_k, filter_metadata, faults)
  ELSE search_multiple_collections(st, Some(<<>>), Some(top_k), filter_metadata, faults)

(***************************************************************************)
(* Deletion.                                                               *)
(***************************************************************************)
\* client.delete(collection_name, Filter(file_id == file_id))
client_delete(st, collection_name, file_id) ==
  [st EXCEPT ![collection_name] = {p \in @ : p.file_id # file_id}]

RECURSIVE DeleteLoop(_, _, _, _, _, _)
\* the for loop of delete_document over cols, with deleted_count and the
\* calls made so far: a call that raises is logged and the loop continues
DeleteLoop(st, cols, file_id, faults, deleted_count, calls) ==
  IF cols = <<>> THEN [store |-> st, deleted_count |-> deleted_count, calls |-> calls]
  ELSE IF Head(cols) \in faults
  THEN DeleteLoop(st, Tail(cols), file_id, faults, deleted_count,
                  Append(calls, [collection |-> Head(cols), ok |-> FALSE]))
  ELSE DeleteLoop(client_delete(st, Head(cols), file_id), Tail(cols), file_id, faults,
                  deleted_count + 1,
                  Append(calls, [collection |-> Head(cols), ok |-> TRUE]))

\* a faulty delete_document: True only when every call completed
delete_document_strict(st, file_id, offline, faults) ==
  IF offline THEN [store |-> st, returned |-> TRUE, calls |-> <<>>]
  ELSE LET r == DeleteLoop(st, CollectionNames, file_id, faults, 0, <<>>)
       IN  [store |-> r.store, returned |-> r.deleted_count = Len(CollectionNames),
            calls |-> r.calls]

\* a faulty delete_document: True only when some point was removed
delete_document_counting_matches(st, file_id, offline, faults) ==
  IF offline THEN [store |-> st, returned |-> TRUE, calls |-> <<>>]
  ELSE LET r == DeleteLoop(st, CollectionNames, file_id, faults, 0, <<>>)
       IN  [store |-> r.store, returned |-> r.store # st, calls |-> r.calls]

\* a faulty delete_document: a collection that holds a point of the file id
\* is emptied
delete_document_emptying(st, file_id, offline, faults) ==
  IF offline THEN [store |-> st, returned |-> TRUE, calls |-> <<>>]
  ELSE LET r == DeleteLoop(st, CollectionNames, file_id, faults, 0, <<>>)
       IN  [store |-> [c \in KnownCollections |->
                        IF r.store[c] # st[c] THEN {} ELSE st[c]],
            returned |-> r.deleted_count > 0, calls |-> r.calls]

\* MultiIndexVectorStore.delete_document
delete_document(st, file_id, offline, faults) ==
  IF offline THEN [store |-> st, returned |-> TRUE, calls |-> <<>>]
  ELSE LET r == DeleteLoop(st, CollectionNames, file_id, faults, 0, <<>>)
       IN  [store |-> r.store, returned |-> r.deleted_count > 0, calls |-> r.calls]

(***************************************************************************)
(* State.                                                                  *)
(***************************************************************************)
VARIABLES
  offline_mode,  \* settings.offline_mode
  mongo_up,      \* the metadata store answers calls
  pc,            \* per document: where its upload and background job stand
  doc_type,      \* per document: the file extension given at upload
  meta,          \* per document: status of its record in the metadata store
  on_disk,       \* per document: the uploaded file is in upload_dir
  store,         \* per collection: the points the backend holds
  deleted_ok,    \* ids for which delete_document has returned True
  last,          \* the response of the request handler that ran last
  server,        \* the application: "starting", "running" or "failed"
  chunker,       \* the locals of a chunk_text call that is being followed
  qdrant         \* per collection: its vector configuration in the backend

vars == <<offline_mode, mongo_up, pc, doc_type, meta, on_disk, store, deleted_ok,
          last, server, chunker, qdrant>>

\* no chunk_text call is being followed
NoChunking == [cpc |-> "idle"]

NoResponse == [op |-> "none"]

\* an id no upload ever returned
UnknownId == MaxDocs + 1

\* the extensions an upload request may carry
UploadTypes == {"pdf", "png", "exe"}

\* decoders that await file I/O (aiofiles): _process_pdf, _process_docx, _process_text
AsyncDecoders == {"pdf", "docx", "txt"}

FaultSets ==
  {F \in SUBSET KnownCollections :
     \/ Cardinality(F) <= MaxFaults
     \/ Cardinality(F) >= Cardinality(KnownCollections) - MaxFaults}

\* the fault sets of the service runs: no fault, the backend unreachable, or
\* one collection that documents are routed to failing
ServiceFaultSets ==
  {{}, KnownCollections} \cup {{get_collection_name(t)} : t \in UploadTypes \cap supported_formats}

MetaOf(d) == IF d \in Docs THEN meta[d] ELSE "none"

\* documents.find_one / update_one reach the record
RecordFound(d) == ~offline_mode /\ mongo_up /\ MetaOf(d) # "none"

PointsOf(st, d) == UNION {{p \in st[c] : p.file_id = d} : c \in KnownCollections}

(***************************************************************************)
(* add_document after the decoder has the file: decode, check the text,    *)
(* chunk, embed each chunk, upsert.  The outcome of the environment is     *)
(*   extract  "raise" or the text the decoder returns                      *)
(*   embed_ok the embedding model encodes every chunk                      *)
(*   upsert_ok the upsert call completes; when it raises, written is the   *)
(*            set of chunk indexes the backend had applied, a proper       *)
(*            prefix of the batch                                          *)
(***************************************************************************)
OutcomesFor(texts) ==
  [extract : {"raise"}, embed_ok : {TRUE}, upsert_ok : {TRUE}, written : {{}}]
  \cup [extract : {"blank"}, embed_ok : {TRUE}, upsert_ok : {TRUE}, written : {{}}]
  \cup UNION {
         [extract : {t}, embed_ok : {FALSE}, upsert_ok : {TRUE}, written : {{}}]
         \cup [extract : {t}, embed_ok : {TRUE}, upsert_ok : {TRUE}, written : {{}}]
         \cup [extract : {t}, embed_ok : {TRUE}, upsert_ok : {FALSE},
               written : {0..(k - 1) : k \in 0..(NumChunks[t] - 1)}]
         : t \in texts}

Outcomes == OutcomesFor({"long"})

\* a faulty routing: every document goes to the legacy collection
LegacyCollection(file_type) == collections["default"]

\* the collection add_document upserts to (line 104)
TargetCollection(file_type) == get_collection_name(file_type)

\* a faulty add_document: a failure empties the collection it was writing to
add_document_clearing(st, file_type, file_id, o) ==
  LET collection_name == get_collection_name(file_type)
      cleared == [st EXCEPT ![collection_name] = {}]
  IN  IF o.extract = "raise" \/ IsBlank[o.extract] \/ ~o.embed_ok \/ ~o.upsert_ok
      THEN [raised |-> TRUE, store |-> cleared]
      ELSE [raised |-> FALSE,
            store  |-> Upsert(st, collection_name,
                              BuildPoints(file_id, file_type, collection_name,
                                          NumChunks[o.extract]))]

\* a faulty add_document: chunk indexes go on from the points the document
\* already has
add_document_renumbering(st, file_type, file_id, o) ==
  IF o.extract = "raise" \/ IsBlank[o.extract] \/ ~o.embed_ok
  THEN [raised |-> TRUE, store |-> st]
  ELSE LET collection_name == get_collection_name(file_type)
           held == Cardinality({p \in st[collection_name] : p.file_id = file_id})
           points == {[p EXCEPT !.chunk_index = @ + held] :
                        p \in BuildPoints(file_id, file_type, collection_name,
                                          NumChunks[o.extract])}
       IN  IF ~o.upsert_ok
           THEN [raised |-> TRUE,
                 store  |-> Upsert(st, collection_name,
                                   {p \in points : p.chunk_index - held \in o.written})]
           ELSE [raised |-> FALSE, store |-> Upsert(st, collection_name, points)]

\* a faulty add_document: an upsert that raises is logged and not re-raised
add_document_swallowing(st, file_type, file_id, o) ==
  IF o.extract = "raise" \/ IsBlank[o.extract] \/ ~o.embed_ok
  THEN [raised |-> TRUE, store |-> st]
  ELSE LET collection_name == get_collection_name(file_type)
           points == BuildPoints(file_id, file_type, collection_name,
                                 NumChunks[o.extract])
       IN  IF ~o.upsert_ok
           THEN [raised |-> FALSE,
                 store  |-> Upsert(st, collection_name,
                                   {p \in points : p.chunk_index \in o.written})]
           ELSE [raised |-> FALSE, store |-> Upsert(st, collection_name, points)]

\* a faulty add_document: when the embedding of a chunk raises, the points
\* prepared so far are upserted before the exception is passed on
add_document_flushing(st, file_type, file_id, o) ==
  IF o.extract = "raise" \/ IsBlank[o.extract] THEN [raised |-> TRUE, store |-> st]
  ELSE LET collection_name == get_collection_name(file_type)
           points == BuildPoints(file_id, file_type, collection_name,
                                 NumChunks[o.extract])
       IN  IF ~o.embed_ok
           THEN [raised |-> TRUE,
                 store  |-> Upsert(st, collection_name,
                                   {p \in points : p.chunk_index = 0})]
           ELSE IF ~o.upsert_ok
           THEN [raised |-> TRUE,
                 store  |-> Upsert(st, collection_name,
                                   {p \in points : p.chunk_index \in o.written})]
           ELSE [raised |-> FALSE, store |-> Upsert(st, collection_name, points)]

\* lines 89-152 of add_document: [raised, store]
add_document(st, file_type, file_id, o) ==
  IF o.extract = "raise" THEN [raised |-> TRUE, store |-> st]
  ELSE IF IsBlank[o.extract] THEN [raised |-> TRUE, store |-> st]
  ELSE LET n == NumChunks[o.extract]
           collection_name == TargetCollection(file_type)
           points == BuildPoints(file_id, file_type, collection_name, n)
       IN  IF ~o.embed_ok THEN [raised |-> TRUE, store |-> st]
           ELSE IF ~o.upsert_ok
           THEN [raised |-> TRUE,
                 store  |-> Upsert(st, collection_name,
                                   {p \in points : p.chunk_index \in o.written})]
           ELSE [raised |-> FALSE, store |-> Upsert(st, collection_name, points)]

(***************************************************************************)
(* Initial state: the service has started, nothing is uploaded.            *)
(***************************************************************************)
InitCommon ==
  /\ mongo_up \in BOOLEAN
  /\ pc = [d \in Docs |-> "none"]
  /\ doc_type = [d \in Docs |-> "none"]
  /\ meta = [d \in Docs |-> "none"]
  /\ on_disk = [d \in Docs |-> FALSE]
  /\ store = EmptyStore
  /\ deleted_ok = {}
  /\ last = NoResponse
  /\ chunker = NoChunking

\* the application has started (lifespan, main.py)
Init == offline_mode = FALSE /\ server = "running" /\ qdrant = AllCreated /\ InitCommon

\* a faulty upload: the job is started before the response is returned
upload_starting_job(file_extension) ==
  /\ \E d \in Docs : pc[d] = "none"
  /\ LET file_id == CHOOSE d \in Docs : pc[d] = "none" /\ \A e \in Docs : pc[e] = "none" => d <= e
     IN  IF file_extension \notin supported_formats
         THEN /\ last' = [op |-> "upload", status_code |-> 400]
              /\ UNCHANGED <<pc, doc_type, meta, on_disk>>
         ELSE /\ on_disk' = [on_disk EXCEPT ![file_id] = TRUE]
              /\ doc_type' = [doc_type EXCEPT ![file_id] = file_extension]
              /\ pc' = [pc EXCEPT ![file_id] = "reading"]
              /\ meta' = [meta EXCEPT ![file_id] =
                            IF ~offline_mode /\ mongo_up THEN "processing" ELSE @]
              /\ last' = [op |-> "upload", status_code |-> 200, file_id |-> file_id,
                          status |-> IF offline_mode THEN "completed" ELSE "processing"]
  /\ UNCHANGED <<qdrant, server, chunker, offline_mode, mongo_up, store, deleted_ok>>

(***************************************************************************)
(* POST /upload (upload_document).  The background task is queued and runs *)
(* after the response has been sent.                                       *)
(***************************************************************************)
Upload(file_extension) ==
  /\ \E d \in Docs : pc[d] = "none"
  /\ LET file_id == CHOOSE d \in Docs : pc[d] = "none" /\ \A e \in Docs : pc[e] = "none" => d <= e
     IN  IF file_extension \notin supported_formats
         THEN /\ last' = [op |-> "upload", status_code |-> 400]
              /\ UNCHANGED <<pc, doc_type, meta, on_disk>>
         ELSE /\ on_disk' = [on_disk EXCEPT ![file_id] = TRUE]
              /\ doc_type' = [doc_type EXCEPT ![file_id] = file_extension]
              /\ pc' = [pc EXCEPT ![file_id] = "queued"]
              /\ meta' = [meta EXCEPT ![file_id] =
                            IF ~offline_mode /\ mongo_up THEN "processing" ELSE @]
              /\ last' = [op |-> "upload", status_code |-> 200, file_id |-> file_id,
                          status |-> IF offline_mode THEN "completed" ELSE "processing"]
  /\ UNCHANGED <<qdrant, server, chunker, offline_mode, mongo_up, store, deleted_ok>>

(***************************************************************************)
(* process_document_background, in the steps between which the event loop  *)
(* can run other tasks.                                                    *)
(***************************************************************************)
\* the job starts: add_document up to the decoder's first await.  A decoder
\* that does not await (xlsx, csv, images) runs add_document to its end.
JobStart(d, o) ==
  /\ pc[d] = "queued"
  /\ IF offline_mode
     THEN pc' = [pc EXCEPT ![d] = "ok"] /\ UNCHANGED store
     ELSE IF doc_type[d] \notin supported_formats \/ ~on_disk[d]
     THEN pc' = [pc EXCEPT ![d] = "err"] /\ UNCHANGED store
     ELSE IF doc_type[d] \in AsyncDecoders
     THEN pc' = [pc EXCEPT ![d] = "reading"] /\ UNCHANGED store
     ELSE LET r == add_document(store, doc_type[d], d, o)
          IN  /\ store' = r.store
              /\ pc' = [pc EXCEPT ![d] = IF r.raised THEN "err" ELSE "ok"]
  /\ last' = NoResponse
  /\ UNCHANGED <<qdrant, server, chunker, offline_mode, mongo_up, doc_type, meta, on_disk, deleted_ok>>

\* the decoder has read the file: the rest of add_document, without an await
JobIndex(d, o) ==
  /\ pc[d] = "reading"
  /\ LET r == add_document(store, doc_type[d], d, o)
     IN  /\ store' = r.store
         /\ pc' = [pc EXCEPT ![d] = IF r.raised THEN "err" ELSE "ok"]
  /\ last' = NoResponse
  /\ UNCHANGED <<qdrant, server, chunker, offline_mode, mongo_up, doc_type, meta, on_disk, deleted_ok>>

\* a faulty completion: after recording completed the job still runs its
\* exception handler
complete_then_fail(d) ==
  /\ pc[d] = "ok"
  /\ meta' = [meta EXCEPT ![d] = IF RecordFound(d) THEN "completed" ELSE @]
  /\ pc' = [pc EXCEPT ![d] = "err"]
  /\ last' = NoResponse
  /\ UNCHANGED <<qdrant, server, chunker, offline_mode, mongo_up, doc_type, on_disk, store, deleted_ok>>

\* a faulty exception handler: the failure is logged and not recorded
fail_unrecorded(d) ==
  /\ pc[d] = "err"
  /\ pc' = [pc EXCEPT ![d] = "done"]
  /\ last' = NoResponse
  /\ UNCHANGED <<qdrant, server, chunker, offline_mode, mongo_up, doc_type, meta, on_disk, store, deleted_ok>>

\* lines 136-147: add_document returned; record status completed
JobComplete(d) ==
  /\ pc[d] = "ok"
  /\ meta' = [meta EXCEPT ![d] = IF RecordFound(d) THEN "completed" ELSE @]
  /\ pc' = [pc EXCEPT ![d] = "done"]
  /\ last' = NoResponse
  /\ UNCHANGED <<qdrant, server, chunker, offline_mode, mongo_up, doc_type, on_disk, store, deleted_ok>>

\* lines 149-164: add_document raised; record status failed
JobFail(d) ==
  /\ pc[d] = "err"
  /\ meta' = [meta EXCEPT ![d] = IF RecordFound(d) THEN "failed" ELSE @]
  /\ pc' = [pc EXCEPT ![d] = "done"]
  /\ last' = NoResponse
  /\ UNCHANGED <<qdrant, server, chunker, offline_mode, mongo_up, doc_type, on_disk, store, deleted_ok>>

(***************************************************************************)
(* DELETE /{file_id} (delete_document endpoint).  The inner except clause  *)
(* catches every exception, the 404 included, so the handler always goes   *)
(* on to the vector store and the file; the value delete_document returns  *)
(* is not looked at.                                                       *)
(***************************************************************************)
DeleteEndpoint(file_id, faults) ==
  /\ file_id \in Docs => pc[file_id] # "none"
  /\ LET r == delete_document(store, file_id, offline_mode, faults)
     IN  /\ store' = r.store
         /\ deleted_ok' = IF r.returned THEN deleted_ok \cup {file_id} ELSE deleted_ok
  /\ meta' = [d \in Docs |-> IF d = file_id /\ RecordFound(d) THEN "none" ELSE meta[d]]
  /\ on_disk' = [d \in Docs |-> IF d = file_id THEN FALSE ELSE on_disk[d]]
  /\ last' = [op |-> "delete", status_code |-> 200, file_id |-> file_id,
              calls |-> Len(delete_document(store, file_id, offline_mode, faults).calls)]
  /\ UNCHANGED <<qdrant, server, chunker, offline_mode, mongo_up, pc, doc_type>>

(***************************************************************************)
(* The environment: the metadata store goes away or comes back.            *)
(***************************************************************************)
MongoFlip ==
  /\ mongo_up' = ~mongo_up
  /\ last' = NoResponse
  /\ UNCHANGED <<qdrant, server, chunker, offline_mode, pc, doc_type, meta, on_disk, store, deleted_ok>>

(***************************************************************************)
(* The service: uploads, background jobs and deletes interleave.           *)
(***************************************************************************)
Next ==
  \/ \E t \in UploadTypes : Upload(t)
  \/ \E d \in Docs, o \in Outcomes : JobStart(d, o)
  \/ \E d \in Docs, o \in Outcomes : JobIndex(d, o)
  \/ \E d \in Docs : JobComplete(d)
  \/ \E d \in Docs : JobFail(d)
  \/ \E d \in Docs, F \in ServiceFaultSets : DeleteEndpoint(d, F)
  \/ MongoFlip

Spec == Init /\ [][Next]_vars

\* every queued background task is run to its end by the event loop
FairSpec ==
  /\ Spec
  /\ \A d \in Docs :
       /\ WF_vars(\E o \in Outcomes : JobStart(d, o))
       /\ WF_vars(\E o \in Outcomes : JobIndex(d, o))
       /\ WF_vars(JobComplete(d))
       /\ WF_vars(JobFail(d))

(***************************************************************************)
(* The vector store's methods called on a store that ingestion has filled: *)
(* search (as POST /ask calls it), search_multiple_collections and         *)
(* delete_document.  These calls read or change the store only.            *)
(***************************************************************************)
SearchModes == {"all", "file_type", "collection", "hybrid"}

Filters ==
  {{},
   {<<"file_type", "pdf">>},
   {<<"file_type", "png">>},
   {<<"collection", "rag_pdf_documents">>},
   {<<"collection", "no_such_collection">>}}

TopKs == 1..MaxTopK

\* what an ingested document is: its type and the text its decoder returned
Ingested == {<<"pdf", "long">>, <<"png", "short">>, <<"jpg", "long">>}

RECURSIVE StoreOf(_, _)
\* the store after the documents of D were ingested, each job to its end
StoreOf(D, what) ==
  IF D = {} THEN EmptyStore
  ELSE LET d == CHOOSE x \in D : \A y \in D : x >= y
           collection_name == get_collection_name(what[d][1])
       IN  Upsert(StoreOf(D \ {d}, what), collection_name,
                  BuildPoints(d, what[d][1], collection_name, NumChunks[what[d][2]]))

InitStore ==
  /\ offline_mode = FALSE
  /\ qdrant = AllCreated
  /\ server = "running"
  /\ chunker = NoChunking
  /\ mongo_up = TRUE
  /\ \E n \in 0..MaxDocs : \E what \in [1..n -> Ingested] :
       /\ pc = [d \in Docs |-> IF d <= n THEN "done" ELSE "none"]
       /\ doc_type = [d \in Docs |-> IF d <= n THEN what[d][1] ELSE "none"]
       /\ meta = [d \in Docs |-> IF d <= n THEN "completed" ELSE "none"]
       /\ on_disk = [d \in Docs |-> d <= n]
       /\ store = StoreOf(1..n, what)
  /\ deleted_ok = {}
  /\ last = NoResponse

Search(top_k, filter_metadata, search_mode, faults) ==
  /\ LET r == search(store, top_k, filter_metadata, search_mode, offline_mode, faults)
     IN  last' = [op |-> "search", top_k |-> top_k, filter_metadata |-> filter_metadata,
                  search_mode |-> search_mode, faults |-> faults,
                  raised |-> r.raised, hits |-> r.hits, calls |-> r.calls]
  /\ UNCHANGED <<qdrant, server, chunker, offline_mode, mongo_up, pc, doc_type, meta, on_disk, store, deleted_ok>>

\* search_multiple_collections called with collections=None
SearchMultipleCollections(top_k_per_collection, filter_metadata, faults) ==
  /\ LET r == search_multiple_collections(store, None, top_k_per_collection,
                                          filter_metadata, faults)
     IN  last' = [op |-> "search_multiple_collections",
                  top_k_per_collection |-> top_k_per_collection,
                  filter_metadata |-> filter_metadata, faults |-> faults,
                  raised |-> r.raised, hits |-> r.hits, calls |-> r.calls]
  /\ UNCHANGED <<qdrant, server, chunker, offline_mode, mongo_up, pc, doc_type, meta, on_disk, store, deleted_ok>>

DeleteDocument(file_id, faults) ==
  /\ LET r == delete_document(store, file_id, offline_mode, faults)
     IN  /\ store' = r.store
         /\ deleted_ok' = IF r.returned THEN deleted_ok \cup {file_id} ELSE deleted_ok
         /\ last' = [op |-> "delete_document", file_id |-> file_id, faults |-> faults,
                     returned |-> r.returned, calls |-> r.calls,
                     repeated |-> file_id \in deleted_ok, before |-> store]
  /\ UNCHANGED <<qdrant, server, chunker, offline_mode, mongo_up, pc, doc_type, meta, on_disk>>

\* the caller takes the response
Return ==
  /\ last # NoResponse
  /\ last' = NoResponse
  /\ UNCHANGED <<qdrant, server, chunker, offline_mode, mongo_up, pc, doc_type, meta, on_disk, store, deleted_ok>>

\* the fault sets of a search: no fault, the backend unreachable, or one
\* collection failing
SearchFaultSets ==
  {{}, KnownCollections} \cup {{get_collection_name(w[1])} : w \in Ingested}

\* one caller: each call returns before the next is made
NextStore ==
  \/ /\ last = NoResponse
     /\ \E k \in TopKs \cup {settings_top_k}, f \in Filters, m \in SearchModes,
           F \in SearchFaultSets :
          Search(k, f, m, F)
  \/ /\ last = NoResponse
     /\ \E k \in {None} \cup {Some(j) : j \in TopKs}, F \in SearchFaultSets :
          SearchMultipleCollections(k, {}, F)
  \/ /\ last = NoResponse
     /\ \E d \in Docs \cup {UnknownId}, F \in FaultSets : DeleteDocument(d, F)
  \/ Return

SpecStore == InitStore /\ [][NextStore]_vars

(***************************************************************************)
(* Properties of the ingestion pipeline (Spec, FairSpec).                  *)
(***************************************************************************)
Terminal == {"completed", "failed"}

\* one step of the recorded status of document d, from a to b
StatusStep(d, a, b) ==
  \/ a = b
  \/ a = "none" /\ b = "processing" /\ pc[d] = "none"
  \/ a = "processing" /\ b \in Terminal
  \/ a # "none" /\ b = "none" /\ last'.op = "delete" /\ last'.file_id = d

\* C1: the recorded status of a document is created as PROCESSING by its
\* upload and changes only PROCESSING -> COMPLETED or PROCESSING -> FAILED;
\* a COMPLETED or FAILED status never changes again (a delete removes the
\* record with its status, and no record is created a second time).
C1_StatusMachine == [][\A d \in Docs : StatusStep(d, meta[d], meta'[d])]_vars

C1_Witness ==
  \E d, e \in Docs : meta[d] = "completed" /\ meta[e] = "failed"

\* C2 as stated: every acknowledged document reaches COMPLETED or FAILED.
\* Once the job has ended nothing writes the status again, so the claim
\* requires a terminal status in every state where the job has ended.
C2_Claim == \A d \in Docs : pc[d] = "done" => meta[d] \in Terminal

\* C2 amended: every acknowledged document's job ends, and the step that
\* ends it records COMPLETED or FAILED whenever the metadata store answers
\* and holds the document's record.
C2_Amended ==
  /\ \A d \in Docs : (pc[d] = "queued") ~> (pc[d] = "done")
  /\ [][\A d \in Docs :
          (pc[d] \in {"ok", "err"} /\ pc'[d] = "done" /\ RecordFound(d))
            => meta'[d] \in Terminal]_vars

C2_Witness ==
  \E d, e \in Docs :
    /\ pc[d] = "done" /\ meta[d] \in Terminal
    /\ pc[e] = "done" /\ meta[e] = "processing"

\* C3 as stated: at the acknowledgement the recorded status is PROCESSING
\* and no ingestion step has run.
C3_Claim ==
  (last.op = "upload" /\ last.status_code = 200) =>
    /\ meta[last.file_id] = "processing"
    /\ pc[last.file_id] = "queued"
    /\ PointsOf(store, last.file_id) = {}

\* C3 amended: outside offline mode the acknowledgement reports PROCESSING;
\* the recorded status is PROCESSING when the metadata store took the
\* insert and there is no record otherwise; no ingestion step has run.
C3_Amended ==
  (last.op = "upload" /\ last.status_code = 200) =>
    /\ last.status = "processing"
    /\ meta[last.file_id] = (IF mongo_up THEN "processing" ELSE "none")
    /\ pc[last.file_id] = "queued"
    /\ PointsOf(store, last.file_id) = {}

C3_Witness ==
  /\ last.op = "upload" /\ last.status_code = 200
  /\ meta[last.file_id] = "processing"
  /\ \E e \in Docs : e # last.file_id /\ pc[e] \in {"reading", "ok", "err"}

\* the background job of document a takes a step
JobStep(a) == pc[a] \in {"queued", "reading", "ok", "err"} /\ pc'[a] # pc[a]

\* all points of document d, of n chunks, are in its routed collection
Indexed(st, d, n) ==
  LET c == get_collection_name(doc_type[d])
  IN  {p \in st[c] : p.file_id = d} = BuildPoints(d, doc_type[d], c, n)

\* C4: a step of document a's job, failing or not, leaves the status, the
\* points and the job of every other document b unchanged and raises
\* nothing to a caller; b's own successful indexing step leaves all of b's
\* points indexed and b's own final step records COMPLETED when the
\* metadata store holds b's record, whatever a's job did.
C4_Isolation ==
  /\ [][\A a, b \in Docs :
          (a # b /\ JobStep(a)) =>
            /\ pc'[b] = pc[b]
            /\ meta'[b] = meta[b]
            /\ PointsOf(store', b) = PointsOf(store, b)
            /\ last' = NoResponse]_vars
  /\ [][\A b \in Docs :
          /\ (pc[b] \in {"queued", "reading"} /\ pc'[b] = "ok")
               => \E t \in TextIds : Indexed(store', b, NumChunks[t])
          /\ (pc[b] = "ok" /\ pc'[b] = "done" /\ RecordFound(b))
               => meta'[b] = "completed"]_vars

C4_Witness ==
  \E a, b \in Docs :
    /\ a # b
    /\ pc[a] = "done" /\ meta[a] = "failed"
    /\ pc[b] = "done" /\ meta[b] = "completed"
    /\ Indexed(store, b, NumChunks["long"])
    /\ doc_type[a] = doc_type[b]

\* C8 as stated: once delete_document has returned True for a file id, no
\* search, in any mode, returns a hit with that file id.
C8_Claim ==
  \A d \in deleted_ok : \A k \in TopKs, f \in Filters, m \in SearchModes :
    \A h \in Range(search(store, k, f, m, offline_mode, {}).hits) : h.file_id # d

\* C10: every stored point lies in the collection that its document's file
\* type routes to, so all points of one file id are in one collection.
C10_OneCollection ==
  \A c \in KnownCollections : \A p \in store[c] :
    /\ c = get_collection_name(doc_type[p.file_id])
    /\ \A c2 \in KnownCollections : \A q \in store[c2] :
         q.file_id = p.file_id => c2 = c

C10_Witness ==
  \E d, e \in Docs :
    /\ doc_type[d] = "pdf" /\ doc_type[e] = "png"
    /\ Cardinality(PointsOf(store, d)) = 2
    /\ Cardinality(PointsOf(store, e)) = 2

(***************************************************************************)
(* Properties of the vector store's methods (SpecStore).                   *)
(***************************************************************************)
\* the per-collection limit of a fan-out for a requested top_k
FanOutLimit(top_k) == Max(1, top_k \div Len(CollectionNames))

IsAscending(hits) ==
  \A i, j \in DOMAIN hits : i < j => hits[i].distance <= hits[j].distance

\* the hits the known collections return to a fan-out, those in faults raising
Returned(st, top_k, filter_metadata, faults) ==
  FanOut(st, CollectionNames, FanOutLimit(top_k), filter_metadata, faults, <<>>, <<>>).hits

\* C5 as stated: a search in mode "all" searches every known collection
\* once, each with limit max(1, top_k div collection_count).
C5_Claim ==
  (last.op = "search" /\ last.search_mode = "all") =>
    /\ [i \in DOMAIN last.calls |-> last.calls[i].collection] = CollectionNames
    /\ \A i \in DOMAIN last.calls : last.calls[i].limit = FanOutLimit(last.top_k)

\* C6 as stated: the result of a search in mode "all" is ascending by score
\* and its length is min(top_k, number of hits the collections return).
C6_Claim ==
  (last.op = "search" /\ last.search_mode = "all" /\ last.faults = {}) =>
    /\ IsAscending(last.hits)
    /\ Len(last.hits) =
         Min(last.top_k, Len(Returned(store, last.top_k, last.filter_metadata, {})))

\* C7 as stated: a search in mode "all" does not raise and returns the
\* sorted merge of the hits of the collections whose search does not raise;
\* a single-collection search whose collection search raises, raises.
C7_Claim ==
  /\ (last.op = "search" /\ last.search_mode = "all") =>
       /\ ~last.raised
       /\ LET merged == SortByDistance(
                          Returned(store, last.top_k, last.filter_metadata, last.faults))
          IN  last.hits = SubSeq(merged, 1, Min(last.top_k, Len(merged)))
  /\ (/\ last.op = "search"
      /\ last.search_mode \in {"file_type", "collection"}
      /\ Len(last.calls) = 1
      /\ ~last.calls[1].ok) => last.raised

\* C9: delete_document calls a filtered delete on every known collection,
\* in order, a raising call not stopping the loop; every call that
\* completes leaves its collection without a point of the file id; the
\* result is True exactly when at least one call completed.
C9_DeleteResult ==
  (last.op = "delete_document") =>
    /\ [i \in DOMAIN last.calls |-> last.calls[i].collection] = CollectionNames
    /\ \A i \in DOMAIN last.calls :
         /\ last.calls[i].ok <=> last.calls[i].collection \notin last.faults
         /\ last.calls[i].ok =>
              \A p \in store[last.calls[i].collection] : p.file_id # last.file_id
    /\ last.returned <=> \E i \in DOMAIN last.calls : last.calls[i].ok

C9_Witness ==
  /\ last.op = "delete_document"
  /\ last.returned
  /\ \E i \in DOMAIN last.calls : ~last.calls[i].ok
  /\ PointsOf(store, last.file_id) # {}

(***************************************************************************)
(* Concurrent ingestion (Spec).                                            *)
(***************************************************************************)
\* the job of document d has indexed it and nothing has deleted it
Succeeded(d) == on_disk[d] /\ (pc[d] = "ok" \/ meta[d] = "completed")

\* the store after the job of d, with text t, has run alone on st
RunJob(st, d, t) ==
  LET c == get_collection_name(doc_type[d])
  IN  Upsert(st, c, BuildPoints(d, doc_type[d], c, NumChunks[t]))

\* C11: in every interleaving of the steps of two jobs with distinct file
\* ids, point ids are unique within each collection, no step of one job
\* changes the points of the other document, and once both jobs have
\* indexed their documents the collections hold, for the two documents,
\* what running the two jobs one after the other (in either order) gives.
C11_Concurrent ==
  /\ [](\A c \in KnownCollections : \A p, q \in store[c] :
          PointId(p) = PointId(q) => p = q)
  /\ [][\A a, b \in Docs :
          (a # b /\ JobStep(a)) => PointsOf(store', b) = PointsOf(store, b)]_vars
  /\ [](\A a, b \in Docs :
          (a # b /\ Succeeded(a) /\ Succeeded(b)) =>
            \E ta, tb \in {"long"} :
              LET ab == RunJob(RunJob(EmptyStore, a, ta), b, tb)
                  ba == RunJob(RunJob(EmptyStore, b, tb), a, ta)
              IN  /\ ab = ba
                  /\ \A c \in KnownCollections :
                       {p \in store[c] : p.file_id \in {a, b}} = ab[c])

C11_Witness ==
  \E a, b \in Docs :
    /\ a # b /\ Succeeded(a) /\ Succeeded(b)
    /\ doc_type[a] = "pdf" /\ doc_type[b] = "pdf"
    /\ Cardinality(store["rag_pdf_documents"]) = 2 * NumChunks["long"]

(***************************************************************************)
(* chunk_text followed statement by statement (SpecChunk): the call is     *)
(* made with a text, a chunk_size > 0 and an overlap in [0, chunk_size);   *)
(* chunker holds its arguments and locals, and windows records the         *)
(* [start, end) of every iteration with the number of the chunk it         *)
(* appended (0 when the stripped chunk was empty).                         *)
(***************************************************************************)
\* texts of the calls: up to MaxTextLen characters
MaxTextLen == 5
\* chunk sizes of the calls: 1..MaxChunkSize
MaxChunkSize == 3

Alphabet == {"a", ".", " "}

Texts == UNION {[1..n -> Alphabet] : n \in 0..MaxTextLen}

\* a loop that has run more iterations than the text has characters is
\* followed no further
IterCap(text) == Len(text) + 1

InitChunk ==
  /\ offline_mode = FALSE
  /\ qdrant = AllCreated
  /\ server = "running"
  /\ mongo_up = TRUE
  /\ pc = [d \in Docs |-> "none"]
  /\ doc_type = [d \in Docs |-> "none"]
  /\ meta = [d \in Docs |-> "none"]
  /\ on_disk = [d \in Docs |-> FALSE]
  /\ store = EmptyStore
  /\ deleted_ok = {}
  /\ last = NoResponse
  /\ \E text \in Texts, chunk_size \in 1..MaxChunkSize :
       \E overlap \in 0..(chunk_size - 1) :
         chunker = [cpc |-> "called", text |-> text, chunk_size |-> chunk_size,
                    overlap |-> overlap, start |-> 0, chunks |-> <<>>,
                    windows |-> <<>>]

\* lines 230-234: a text that fits is returned whole; otherwise the loop
\* is entered with start = 0
ChunkEnter ==
  /\ chunker.cpc = "called"
  /\ chunker' =
       IF Len(chunker.text) <= chunker.chunk_size
       THEN [chunker EXCEPT !.cpc = "returned", !.chunks = <<chunker.text>>,
               !.windows = <<[start |-> 0, end |-> Len(chunker.text), chunk |-> 1]>>]
       ELSE [chunker EXCEPT !.cpc = "loop"]
  /\ UNCHANGED <<qdrant, server, offline_mode, mongo_up, pc, doc_type, meta, on_disk, store,
                 deleted_ok, last>>

\* lines 236-253: one iteration of the while loop
ChunkIterate ==
  /\ chunker.cpc = "loop"
  /\ Len(chunker.windows) < IterCap(chunker.text)
  /\ LET b == ChunkBody(chunker.text, chunker.chunk_size, chunker.overlap,
                        chunker.start, chunker.chunks)
     IN  chunker' =
           IF b.raised THEN [chunker EXCEPT !.cpc = "raised"]
           ELSE [chunker EXCEPT
                   !.cpc = IF b.start >= Len(chunker.text) THEN "returned" ELSE "loop",
                   !.chunks = b.chunks,
                   !.start = b.start,
                   !.windows = Append(@, [start |-> chunker.start, end |-> b.end,
                                          chunk |-> IF b.kept THEN Len(b.chunks) ELSE 0])]
  /\ UNCHANGED <<qdrant, server, offline_mode, mongo_up, pc, doc_type, meta, on_disk, store,
                 deleted_ok, last>>

NextChunk == ChunkEnter \/ ChunkIterate

SpecChunk == InitChunk /\ [][NextChunk]_vars

\* C12 as stated: chunk_text terminates and the window start strictly
\* increases from each iteration to the next: every iteration starts after
\* the one before it (the next start, after the last iteration, included),
\* so a call still in its loop has run fewer iterations than its text has
\* characters.
C12_Claim ==
  (chunker.cpc \in {"loop", "returned"}) =>
    /\ chunker.cpc = "loop" => Len(chunker.windows) < Len(chunker.text)
    /\ \A k \in DOMAIN chunker.windows :
         /\ k > 1 => chunker.windows[k].start > chunker.windows[k - 1].start
         /\ k = Len(chunker.windows) /\ chunker.cpc = "loop"
              => chunker.start > chunker.windows[k].start

\* the non-whitespace characters of a text, in order
NonWhitespace(text) ==
  LET keep(ch) == ch \notin Whitespace IN SelectSeq(text, keep)

\* C13: when chunk_text returns, the first window starts at 0, every
\* window starts at or before the end of the one before it, the last one
\* ends at or after the end of the text, every non-whitespace position of
\* the text lies in a window whose chunk was returned, and each returned
\* chunk holds the non-whitespace content of its window.
C13_Coverage ==
  (chunker.cpc = "returned") =>
    LET w == chunker.windows
        n == Len(w)
    IN  /\ n >= 1
        /\ w[1].start = 0
        /\ w[n].end >= Len(chunker.text)
        /\ \A k \in 2..n : w[k].start <= w[k - 1].end /\ w[k].start >= 0
        /\ \A k \in 1..n :
             w[k].chunk # 0 =>
               /\ w[k].chunk \in DOMAIN chunker.chunks
               /\ NonWhitespace(chunker.chunks[w[k].chunk]) =
                    NonWhitespace(Slice(chunker.text, w[k].start, w[k].end))
        /\ \A j \in DOMAIN chunker.chunks : \E k \in 1..n : w[k].chunk = j
        /\ \A pos \in 0..(Len(chunker.text) - 1) :
             chunker.text[pos + 1] \notin Whitespace =>
               \E k \in 1..n :
                 w[k].start <= pos /\ pos < w[k].end /\ w[k].chunk # 0

C13_Witness ==
  /\ chunker.cpc = "returned"
  /\ Len(chunker.windows) >= 3
  /\ chunker.overlap >= 1
  /\ \E k \in DOMAIN chunker.windows : chunker.windows[k].chunk = 0
  /\ \E k \in DOMAIN chunker.windows :
       chunker.windows[k].end < chunker.windows[k].start + chunker.chunk_size

(***************************************************************************)
(* add_document called on the store directly, any number of times and      *)
(* with any file id (SpecIngest).                                          *)
(***************************************************************************)
IngestTypes == {"txt"}

IngestOutcomes == OutcomesFor({"short", "plain2500"})

AddDocument(file_id, file_type, o) ==
  /\ LET r == add_document(store, file_type, file_id, o)
     IN  /\ store' = r.store
         /\ last' = [op |-> "add_document", file_id |-> file_id,
                     file_type |-> file_type, text |-> o.extract,
                     raised |-> r.raised, before |-> PointsOf(store, file_id)]
  /\ UNCHANGED <<qdrant, server, chunker, offline_mode, mongo_up, pc, doc_type, meta, on_disk,
                 deleted_ok>>

NextIngest ==
  \E d \in Docs, t \in IngestTypes, o \in IngestOutcomes : AddDocument(d, t, o)

InitIngest == Init /\ mongo_up

SpecIngest == InitIngest /\ [][NextIngest]_vars

\* C14 as stated: ingesting a text document of 2500 characters under the
\* settings 1000/200 leaves exactly 3 points, with chunk_index 0, 1, 2 and
\* total_chunks 3.
C14_Claim ==
  (/\ last.op = "add_document"
   /\ last.text = "plain2500"
   /\ ~last.raised
   /\ last.before = {}) =>
    PointsOf(store, last.file_id) =
      BuildPoints(last.file_id, last.file_type,
                  get_collection_name(last.file_type), 3)

\* the points a first ingestion of (file_id, file_type, text) leaves
FirstIngestion(file_id, file_type, text) ==
  BuildPoints(file_id, file_type, get_collection_name(file_type), NumChunks[text])

\* C20: add_document applied to a file id, file type and content whose
\* points the store already holds, as a first ingestion left them, leaves
\* every collection as it was: the same point ids and the same count.
C20_Idempotent ==
  /\ [][(/\ last'.op = "add_document"
         /\ ~last'.raised
         /\ PointsOf(store, last'.file_id) =
              FirstIngestion(last'.file_id, last'.file_type, last'.text))
          => store' = store]_vars
  /\ [](( /\ last.op = "add_document"
          /\ ~last.raised
          /\ last.before = FirstIngestion(last.file_id, last.file_type, last.text))
          => LET c == get_collection_name(last.file_type)
                 now == {p \in store[c] : p.file_id = last.file_id}
             IN  /\ {PointId(p) : p \in now} = {PointId(p) : p \in last.before}
                 /\ Cardinality(now) = Cardinality(last.before)
                 /\ PointsOf(store, last.file_id) = now)

C20_Witness ==
  /\ last.op = "add_document"
  /\ ~last.raised
  /\ last.text = "plain2500"
  /\ last.before = FirstIngestion(last.file_id, last.file_type, last.text)
  /\ \E d \in Docs : d # last.file_id /\ PointsOf(store, d) # {}

(***************************************************************************)
(* The search modes (SpecStore).                                           *)
(***************************************************************************)
\* C15: a search in mode "file_type" with filter_metadata.file_type = t
\* issues exactly one collection search, against the collection t routes
\* to and with the requested top_k; every hit it returns is a point of that
\* collection with file type t.
C15_FileTypeMode ==
  (/\ last.op = "search"
   /\ last.search_mode = "file_type"
   /\ HasKey(last.filter_metadata, "file_type")) =>
    LET t == GetKey(last.filter_metadata, "file_type")
        c == get_collection_name(t)
    IN  /\ Len(last.calls) = 1
        /\ last.calls[1].collection = c
        /\ last.calls[1].limit = last.top_k
        /\ Len(last.hits) <= last.top_k
        /\ \A i \in DOMAIN last.hits :
             /\ last.hits[i].collection = c
             /\ last.hits[i].metadata \in store[c]
             /\ last.hits[i].metadata.file_type = t

C15_Witness ==
  /\ last.op = "search"
  /\ last.search_mode = "file_type"
  /\ last.filter_metadata = {<<"file_type", "png">>}
  /\ Len(last.hits) = 1
  /\ \E p \in store["rag_image_documents"] : p.file_type = "jpg"

\* C16 as stated: a search in mode "collection" queries exactly the
\* collection named in filter_metadata.collection, and for a name that is
\* not an existing collection it returns the empty sequence without raising.
C16_Claim ==
  (/\ last.op = "search"
   /\ last.search_mode = "collection"
   /\ HasKey(last.filter_metadata, "collection")
   /\ last.faults = {}) =>
    LET c == GetKey(last.filter_metadata, "collection")
    IN  /\ Len(last.calls) = 1
        /\ last.calls[1].collection = c
        /\ c \notin KnownCollections => ~last.raised /\ last.hits = <<>>

\* C17: a search in a mode other than "file_type" and "collection" returns
\* what the search in mode "all" returns for the same top_k, filter, store
\* and backend faults, raises when it raises, and issues the same
\* collection searches.
C17_OtherModes ==
  (last.op = "search" /\ last.search_mode \notin {"file_type", "collection"}) =>
    LET r == search(store, last.top_k, last.filter_metadata, "all",
                    offline_mode, last.faults)
    IN  /\ last.hits = r.hits
        /\ last.calls = r.calls
        /\ last.raised = r.raised

C17_Witness ==
  /\ last.op = "search"
  /\ last.search_mode = "hybrid"
  /\ last.filter_metadata = {<<"file_type", "pdf">>}
  /\ store["rag_pdf_documents"] # {}
  /\ store["rag_documents"] = {}

(***************************************************************************)
(* The service in offline mode (SpecOffline): settings.offline_mode is     *)
(* set, init_db returns without connecting, and uploads, jobs, deletes and *)
(* searches run.  The job of an accepted upload cannot fail and has no     *)
(* await inside add_document.                                              *)
(***************************************************************************)
InitOffline ==
  offline_mode = TRUE /\ server = "running" /\ qdrant = AllCreated /\ InitCommon

NextOffline ==
  \/ \E file_extension \in UploadTypes : Upload(file_extension)
  \/ \E d \in Docs, o \in Outcomes : JobStart(d, o)
  \/ \E d \in Docs : JobComplete(d)
  \/ \E d \in Docs, F \in ServiceFaultSets : DeleteEndpoint(d, F)
  \/ \E k \in TopKs, f \in Filters, m \in SearchModes, F \in SearchFaultSets :
       Search(k, f, m, F)
  \/ MongoFlip

SpecOffline == InitOffline /\ [][NextOffline]_vars

\* C18: in offline mode no upload, job, delete or search writes to or calls
\* the vector-store backend or the metadata store: the collections stay
\* empty, no record exists, a delete and a search issue no backend call;
\* every accepted upload is acknowledged with status completed and every
\* search, in every mode, returns the empty sequence without raising.
C18_Offline ==
  /\ store = EmptyStore
  /\ meta = [d \in Docs |-> "none"]
  /\ (last.op = "upload" /\ last.status_code = 200) => last.status = "completed"
  /\ last.op = "delete" => last.calls = 0 /\ last.status_code = 200
  /\ last.op = "search" => ~last.raised /\ last.hits = <<>> /\ last.calls = <<>>

C18_Witness ==
  /\ last.op = "search"
  /\ last.search_mode = "file_type"
  /\ last.filter_metadata = {<<"file_type", "pdf">>}
  /\ last.faults = KnownCollections
  /\ \E d, e \in Docs :
       /\ pc[d] = "done" /\ doc_type[d] = "pdf" /\ on_disk[d]
       /\ pc[e] = "done" /\ ~on_disk[e]

(***************************************************************************)
(* The service from its start (SpecStartup): the lifespan handler runs     *)
(* init_db before any request is served, and the metadata store is either  *)
(* reachable or unreachable for the whole run.                             *)
(***************************************************************************)
InitStartup ==
  offline_mode = FALSE /\ server = "starting" /\ qdrant = AllCreated /\ InitCommon

\* lifespan (main.py) calling init_db (database.py): outside offline mode a
\* failed ping is logged and raised again, and the application does not start
Lifespan ==
  /\ server = "starting"
  /\ server' = IF offline_mode \/ mongo_up THEN "running" ELSE "failed"
  /\ UNCHANGED <<qdrant, chunker, offline_mode, mongo_up, pc, doc_type, meta, on_disk, store,
                 deleted_ok, last>>

NextStartup ==
  \/ Lifespan
  \/ server = "running" /\ \E file_extension \in UploadTypes : Upload(file_extension)
  \/ server = "running" /\ \E d \in Docs, o \in Outcomes : JobStart(d, o)
  \/ server = "running" /\ \E d \in Docs, o \in Outcomes : JobIndex(d, o)
  \/ server = "running" /\ \E d \in Docs : JobComplete(d)
  \/ server = "running" /\ \E d \in Docs : JobFail(d)
  \/ server = "running" /\ \E d \in Docs, F \in ServiceFaultSets : DeleteEndpoint(d, F)

SpecStartup == InitStartup /\ [][NextStartup]_vars

\* C19 as stated: with the metadata store unavailable for the whole run and
\* offline mode off, the service serves: uploads are acknowledged with a
\* file id and a status, a job that succeeds leaves all points of its
\* document in the routed collection, and a delete answers without error.
C19_Claim ==
  (~offline_mode /\ ~mongo_up) =>
    /\ server # "failed"
    /\ (last.op = "upload" /\ last.status_code = 200) =>
         last.file_id \in Docs /\ last.status = "processing"
    /\ \A d \in Docs :
         (pc[d] = "ok" /\ on_disk[d]) => Indexed(store, d, NumChunks["long"])
    /\ last.op = "delete" => last.status_code = 200

(***************************************************************************)
(* Deleting twice (SpecStore).  last.repeated says that an earlier         *)
(* delete_document call for the same file id returned True, last.before is *)
(* the store as the call found it.                                         *)
(***************************************************************************)
\* C21 as stated: a delete_document call for a file id that an earlier call
\* reported as deleted reports success and leaves every collection as it
\* found it.
C21_Claim ==
  (last.op = "delete_document" /\ last.repeated) =>
    /\ last.returned
    /\ store = last.before

\* C21, amended: a delete_document call for a file id that an earlier call
\* reported as deleted, and of which no collection holds a point any more,
\* leaves every collection as it found it and reports success whenever at
\* least one of its per-collection calls completes.
C21_Amended ==
  (/\ last.op = "delete_document"
   /\ last.repeated
   /\ PointsOf(last.before, last.file_id) = {}) =>
    /\ store = last.before
    /\ (\E i \in DOMAIN last.calls : last.calls[i].ok) => last.returned

\* the second delete of an ingested document, one collection failing
C21_Witness ==
  /\ last.op = "delete_document"
  /\ last.repeated
  /\ last.file_id \in Docs
  /\ pc[last.file_id] = "done"
  /\ PointsOf(last.before, last.file_id) = {}
  /\ last.returned
  /\ \E i \in DOMAIN last.calls : ~last.calls[i].ok
  /\ store # EmptyStore

(***************************************************************************)
(* Routing: _get_collection_name called with the file types the upload    *)
(* accepts, with strings that are no supported extension, and with the     *)
(* keys of the collection table, on the stores that ingestion has filled.  *)
(* Callers are add_document (line 104) and the searches by file type       *)
(* (lines 260, 296), which pass the caller's filter value.                 *)
(***************************************************************************)
ImageTypes == {"png", "jpg", "jpeg"}

OwnCollectionTypes == {"pdf", "docx", "xlsx", "csv", "txt"}

FileTypes ==
  supported_formats \cup {"exe", "PNG", "", "doc", "image", "default", "rag_documents"}

GetCollectionName(file_type) ==
  /\ last' = [op |-> "route", file_type |-> file_type,
              collection_name |-> get_collection_name(file_type)]
  /\ UNCHANGED <<qdrant, server, chunker, offline_mode, mongo_up, pc, doc_type, meta, on_disk,
                 store, deleted_ok>>

NextRoute ==
  \/ /\ last = NoResponse
     /\ \E t \in FileTypes : GetCollectionName(t)
  \/ Return

SpecRoute == InitStore /\ [][NextRoute]_vars

\* C22 as stated: the route of a file type is a known collection; png, jpg
\* and jpeg go to the image collection, pdf, docx, xlsx, csv and txt each to
\* the collection of its own key, and every other file type to the default
\* collection, whatever the store holds.
C22_Claim ==
  (last.op = "route") =>
    /\ last.collection_name \in KnownCollections
    /\ last.file_type \in ImageTypes => last.collection_name = "rag_image_documents"
    /\ last.file_type \in OwnCollectionTypes =>
         /\ last.collection_name = collections[last.file_type]
         /\ \A t \in (ImageTypes \cup OwnCollectionTypes) \ {last.file_type} :
              get_collection_name(t) # last.collection_name
    /\ last.file_type \notin ImageTypes \cup OwnCollectionTypes =>
         last.collection_name = "rag_documents"

\* C22, amended: as C22, except that the string "image", a key of the
\* collection table that is no file extension, goes to the image collection
\* and not to the default collection.
C22_Amended ==
  (last.op = "route") =>
    /\ last.collection_name \in KnownCollections
    /\ last.file_type \in ImageTypes \cup {"image"} =>
         last.collection_name = "rag_image_documents"
    /\ last.file_type \in OwnCollectionTypes =>
         /\ last.collection_name = collections[last.file_type]
         /\ \A t \in (ImageTypes \cup OwnCollectionTypes) \ {last.file_type} :
              get_collection_name(t) # last.collection_name
    /\ last.file_type \notin ImageTypes \cup OwnCollectionTypes \cup {"image"} =>
         last.collection_name = "rag_documents"

\* jpeg routed to the image collection while the store holds documents
C22_Witness ==
  /\ last.op = "route"
  /\ last.file_type = "jpeg"
  /\ last.collection_name = "rag_image_documents"
  /\ store["rag_pdf_documents"] # {}

(***************************************************************************)
(* The order of upsert and COMPLETED (Spec).                               *)
(***************************************************************************)
\* the recorded status of document d becomes completed
Completes(d) == meta[d] # "completed" /\ meta'[d] = "completed"

\* C23 as stated: when the status of a document becomes COMPLETED, its
\* routed collection holds one point for every chunk index of the document.
C23_Claim ==
  [][\A d \in Docs :
       Completes(d) => \E t \in TextIds : Indexed(store', d, NumChunks[t])]_vars

\* C23, amended: the status of a document becomes COMPLETED only in the job
\* step that follows the return of add_document, hence after the upsert of
\* all its points; the routed collection then holds one point for every
\* chunk index unless a delete of the document has reported success since
\* the upload.
C23_Amended ==
  [][\A d \in Docs :
       Completes(d) =>
         /\ pc[d] = "ok"
         /\ d \notin deleted_ok => \E t \in TextIds : Indexed(store', d, NumChunks[t])]_vars

C23_Witness ==
  \E d \in Docs :
    /\ meta[d] = "completed"
    /\ pc[d] = "done"
    /\ d \notin deleted_ok
    /\ doc_type[d] = "pdf"
    /\ Indexed(store, d, NumChunks["long"])

(***************************************************************************)
(* Jobs that fail before the upsert (Spec).                                *)
(***************************************************************************)
\* the decoder raises, the text is blank, or the embedding of a chunk raises
EarlyFailure(o) == o.extract = "raise" \/ IsBlank[o.extract] \/ ~o.embed_ok

\* the job step of document d that runs add_document from the decoded text
\* on, with outcome o
AddDocumentStep(d, o) ==
  \/ JobIndex(d, o)
  \/ /\ doc_type[d] \in supported_formats \ AsyncDecoders
     /\ on_disk[d]
     /\ JobStart(d, o)

\* the job step of document d in which process_document finds no decoder or
\* no file
NoDecoderStep(d) ==
  /\ doc_type[d] \notin supported_formats \/ ~on_disk[d]
  /\ \E o \in Outcomes : JobStart(d, o)

\* a job step of d that fails before the upsert leaves every collection
\* unchanged and takes the job to its exception handler
FailsClean(d) ==
  /\ \A o \in Outcomes :
       (EarlyFailure(o) /\ AddDocumentStep(d, o)) => (pc'[d] = "err" /\ store' = store)
  /\ NoDecoderStep(d) => (pc'[d] = "err" /\ store' = store)

\* C24 as stated: a job that fails in extraction, on blank text or in
\* embedding writes no point, and it ends with status FAILED.
C24_Claim ==
  [][\A d \in Docs :
       /\ FailsClean(d)
       /\ (~offline_mode /\ pc[d] = "err" /\ pc'[d] # "err") =>
            (store' = store /\ meta'[d] = "failed")]_vars

\* C24, amended: a job that fails in extraction, on blank text or in
\* embedding writes no point; its exception handler writes no point either
\* and records FAILED when the metadata store is reachable and holds the
\* document's record.
C24_Amended ==
  [][\A d \in Docs :
       /\ FailsClean(d)
       /\ (pc[d] = "err" /\ pc'[d] # "err") =>
            /\ pc'[d] = "done"
            /\ store' = store
            /\ RecordFound(d) => meta'[d] = "failed"]_vars

\* a job has failed and left no point, next to an indexed document
C24_Witness ==
  \E d, e \in Docs :
    /\ pc[d] = "done" /\ meta[d] = "failed"
    /\ d \notin deleted_ok
    /\ PointsOf(store, d) = {}
    /\ doc_type[e] = doc_type[d]
    /\ Indexed(store, e, NumChunks["long"])

(***************************************************************************)
(* Where chunk_text cuts (SpecChunk).                                      *)
(***************************************************************************)
\* the sentence ends in the last SentenceLookback characters of the window
\* that starts at start, not before start
SentenceEndsInWindow(text, start, chunk_size) ==
  {i \in Max(start, start + chunk_size - SentenceLookback)..(start + chunk_size - 1) :
     PyChar(text, i) \in SentenceEnd}

\* C25 as stated: a window that does not reach the end of the text ends
\* just after the last sentence end among its last 100 characters (not
\* before its start), or at start + chunk_size when there is none, and no
\* returned chunk is longer than chunk_size.
C25_Claim ==
  (chunker.cpc \in {"loop", "returned"}) =>
    /\ \A k \in DOMAIN chunker.windows :
         LET w == chunker.windows[k]
             found == SentenceEndsInWindow(chunker.text, w.start, chunker.chunk_size)
         IN  w.start + chunker.chunk_size < Len(chunker.text) =>
               w.end = IF found = {} THEN w.start + chunker.chunk_size
                       ELSE (CHOOSE i \in found : \A j \in found : i >= j) + 1
    /\ \A j \in DOMAIN chunker.chunks : Len(chunker.chunks[j]) <= chunker.chunk_size

\* C26 as stated: every element of the sequence chunk_text returns is a
\* non-empty string, whatever the text.
C26_Claim ==
  (chunker.cpc = "returned") =>
    \A j \in DOMAIN chunker.chunks : Len(chunker.chunks[j]) > 0

(***************************************************************************)
(* The life of the collections: the vector store is constructed when the   *)
(* endpoint modules are imported, before lifespan runs; documents are      *)
(* added once the application serves requests.  The backend may hold       *)
(* collections from an earlier run, with any vector configuration.         *)
(***************************************************************************)
\* configurations a collection of an earlier run can have
VectorConfigs ==
  [size : {embedding_dim, 2 * embedding_dim}, distance : {"Cosine", "Euclid"}]

RECURSIVE EnsureLoop(_, _, _)
\* the for loop of _ensure_collections over names: collection_names is the
\* list get_collections returned
EnsureLoop(bk, names, collection_names) ==
  IF names = <<>> THEN bk
  ELSE IF Head(names) \notin collection_names
  THEN EnsureLoop([bk EXCEPT ![Head(names)] = Wanted], Tail(names), collection_names)
  ELSE EnsureLoop(bk, Tail(names), collection_names)

\* MultiIndexVectorStore._ensure_collections: [raised, qdrant]
ensure_collections(bk, reachable) ==
  IF ~reachable THEN [raised |-> TRUE, qdrant |-> bk]
  ELSE [raised |-> FALSE,
        qdrant |-> EnsureLoop(bk, CollectionNames,
                              {c \in KnownCollections : bk[c] # Absent})]

\* the backends the service can find when it starts: the pdf and the image
\* collection in any state, the other collections all absent or all as
\* wanted
StartBackends ==
  {[c \in KnownCollections |->
      IF c = "rag_pdf_documents" THEN a
      ELSE IF c = "rag_image_documents" THEN b
      ELSE rest] :
     a \in VectorConfigs \cup {Absent}, b \in VectorConfigs \cup {Absent},
     rest \in {Absent, Wanted}}

InitEnsure ==
  /\ offline_mode \in BOOLEAN
  /\ server = "starting"
  /\ qdrant \in StartBackends
  /\ InitCommon

\* MultiIndexVectorStore.__init__, lines 40-47: outside offline mode the
\* collections are ensured; an exception is logged and construction goes on
VectorStoreInit(reachable) ==
  /\ server = "starting"
  /\ last = NoResponse
  /\ LET r == IF offline_mode THEN [raised |-> FALSE, qdrant |-> qdrant]
              ELSE ensure_collections(qdrant, reachable)
     IN  /\ qdrant' = r.qdrant
         /\ last' = [op |-> "init", called |-> ~offline_mode, reachable |-> reachable,
                     raised |-> r.raised, before |-> qdrant]
  /\ UNCHANGED <<server, chunker, offline_mode, mongo_up, pc, doc_type, meta, on_disk,
                 store, deleted_ok>>

\* client.upsert on a collection completes when the backend answers, has
\* the collection, and the collection's vector size is that of the points
UpsertAccepted(bk, collection_name, reachable) ==
  /\ reachable
  /\ bk[collection_name] # Absent
  /\ bk[collection_name].size = embedding_dim

\* add_document called on the backend as it is
AddDocumentOnBackend(file_id, file_type, text, embed_ok, reachable) ==
  /\ server = "running"
  /\ LET collection_name == get_collection_name(file_type)
         o == [extract |-> text, embed_ok |-> embed_ok,
               upsert_ok |-> UpsertAccepted(qdrant, collection_name, reachable),
               written |-> {}]
         r == IF offline_mode THEN [raised |-> FALSE, store |-> store]
              ELSE add_document(store, file_type, file_id, o)
     IN  /\ store' = r.store
         /\ last' = [op |-> "add_document", file_id |-> file_id, file_type |-> file_type,
                     collection_name |-> collection_name, text |-> text,
                     embed_ok |-> embed_ok, reachable |-> reachable,
                     raised |-> r.raised]
  /\ UNCHANGED <<qdrant, server, chunker, offline_mode, mongo_up, pc, doc_type, meta,
                 on_disk, deleted_ok>>

NextEnsure ==
  \/ \E reachable \in BOOLEAN : VectorStoreInit(reachable)
  \/ last # NoResponse /\ Lifespan
  \/ \E d \in Docs, t \in {"pdf", "png", "txt"}, text \in {"blank", "short"},
        embed_ok \in BOOLEAN, reachable \in BOOLEAN :
       AddDocumentOnBackend(d, t, text, embed_ok, reachable)

SpecEnsure == InitEnsure /\ [][NextEnsure]_vars

\* C27 as stated: ensuring the collections creates an absent collection
\* with the wanted vector size and metric, leaves a collection that has
\* them as it is, and fails, leaving the collection as it is, on one that
\* has another size or metric; and no document is added to a collection
\* whose vector size is not the embedding dimension.
C27_Claim ==
  /\ (last.op = "init" /\ last.called /\ last.reachable) =>
       \A c \in KnownCollections :
         /\ last.before[c] = Absent => qdrant[c] = Wanted
         /\ last.before[c] = Wanted => (qdrant[c] = Wanted /\ ~last.raised)
         /\ last.before[c] \notin {Absent, Wanted} =>
              (qdrant[c] = last.before[c] /\ last.raised)
  /\ (last.op = "add_document" /\ ~offline_mode /\ ~IsBlank[last.text] /\ last.embed_ok) =>
       qdrant[last.collection_name].size = embedding_dim

\* C28 as stated: an add_document call that finds its routed collection
\* absent, with the backend answering and the document decoded and
\* embedded, creates the collection and does not fail.
C28_Claim ==
  (/\ last.op = "add_document"
   /\ ~offline_mode
   /\ ~IsBlank[last.text] /\ last.embed_ok /\ last.reachable) =>
    /\ qdrant[last.collection_name] # Absent
    /\ ~last.raised

(***************************************************************************)
(* What a delete leaves alone (SpecStore).                                 *)
(***************************************************************************)
\* C29: a delete_document call removes no point of another file id from
\* any collection and adds none; a collection that held no point of the
\* file id is as the call found it.
C29_DeleteFrame ==
  (last.op = "delete_document") =>
    \A c \in KnownCollections :
      /\ store[c] \subseteq last.before[c]
      /\ \A p \in last.before[c] : p.file_id # last.file_id => p \in store[c]
      /\ (\A p \in last.before[c] : p.file_id # last.file_id) => store[c] = last.before[c]

\* a delete that removed a document from a collection it shares with
\* another document, while another collection holds points too
C29_Witness ==
  /\ last.op = "delete_document"
  /\ \E c \in KnownCollections :
       /\ \E p \in last.before[c] : p.file_id = last.file_id
       /\ \A p \in store[c] : p.file_id # last.file_id
       /\ store[c] # {}
  /\ \E d, e \in Docs : d # e /\ doc_type[d] = doc_type[e]

(***************************************************************************)
(* DELETE /{file_id} for a document without record (Spec).                 *)
(***************************************************************************)
\* C30 as stated: a DELETE for a file id of which the reachable metadata
\* store holds no record answers 404, calls no delete on the vector store
\* and removes no file.
C30_Claim ==
  [][\A d \in Docs :
       (/\ last'.op = "delete"
        /\ last'.file_id = d
        /\ ~offline_mode /\ mongo_up /\ meta[d] = "none") =>
         /\ last'.status_code = 404
         /\ last'.calls = 0
         /\ store' = store
         /\ on_disk' = on_disk]_vars

====
